---- MODULE Spec2Model ----
(***************************************************************************)
(* A model of GraphAdapterFactory (src/src/knowledge/adapters/factory.py): *)
(* the class-level registry of adapter classes, the process environment it *)
(* reads, and one action per class method.  Every method is a pure          *)
(* operator over the registry/environment it is handed; the action that    *)
(* models a call applies the operator and records the call (arguments,     *)
(* outcome, and the collaborators it invoked) in the variable last.        *)
(***************************************************************************)
EXTENDS Integers, Sequences, FiniteSets, TLC

VARIABLES registry, environ, last

vars == <<registry, environ, last>>

(***************************************************************************)
(* Bounds of the model.                                                    *)
(***************************************************************************)
NumIdentifiers == 2

IdPool == <<"kb-42", "kb-lr", "kb-7", "kb-8">>

Identifiers == {IdPool[i] : i \in 1..NumIdentifiers}

(***************************************************************************)
(* Values.  Python's None is the string "None"; it is the only falsy      *)
(* value among the values handed to register.                              *)
(***************************************************************************)
None == "None"

GraphTypes == {"upload", "lightrag", "custom"}

AdapterClasses == {"UploadGraphAdapter", "LightRAGGraphAdapter", "CustomGraphAdapter"}

\* What callers hand to register: a built-in class again, a class of their own,
\* or (nothing checks the argument) no class at all.
RegisterValues == {"UploadGraphAdapter", "CustomGraphAdapter", None}

GraphDbInstances == {None, "graph_db"}

EnvValues == {"mydb"}

Truthy(v) == v # None

\* What a method hands back is a tagged value, so that results of different
\* methods can be told apart: None, a string, an adapter instance, a dict.
NoneValue == [none |-> None]

Str(s) == [str |-> s]

Instance(adapter_class, kwargs) == [cls |-> adapter_class, kwargs |-> kwargs]

Dict(items) == [items |-> items]

Return(v) == [kind |-> "return", value |-> v]

Raise(e) == [kind |-> "raise", error |-> e]

IsReturn(o) == o.kind = "return"

IsRaise(o) == o.kind = "raise"

Error(type, arg) == [type |-> type, arg |-> arg]

UnknownType(graph_type) == Error("ValueError", graph_type)

(***************************************************************************)
(* Collaborators that live outside factory.py.                             *)
(***************************************************************************)

\* A knowledge-base manager as the factory sees it: whether one was passed
\* (None otherwise), its truth value, the attributes it has, and how its
\* is_lightrag_database answers: `answer` for the database `target`, False
\* for every other identifier.
NoManager ==
  [supplied |-> FALSE, truthy |-> FALSE, attrs |-> {}, target |-> None, answer |-> "False"]

Manager(truthy, attrs, target, answer) ==
  [supplied |-> TRUE, truthy |-> truthy, attrs |-> attrs, target |-> target, answer |-> answer]

Managers ==
  {NoManager,
   Manager(TRUE, {}, None, "False"),
   Manager(FALSE, {"is_lightrag_database"}, IdPool[1], "True")}
  \cup {Manager(TRUE, {"is_lightrag_database"}, t, "True") : t \in Identifiers}
  \cup {Manager(TRUE, {"is_lightrag_database"}, IdPool[2], "raise")}

bool(knowledge_base_manager) ==
  knowledge_base_manager.supplied /\ knowledge_base_manager.truthy

hasattr(knowledge_base_manager, name) ==
  name \in knowledge_base_manager.attrs

is_lightrag_database(knowledge_base_manager, db_id) ==
  IF db_id = knowledge_base_manager.target
  THEN IF knowledge_base_manager.answer = "raise"
       THEN Raise(Error("ManagerError", db_id))
       ELSE Return(knowledge_base_manager.answer = "True")
  ELSE Return(FALSE)

\* derive_kb_node_label: a deterministic function of the identifier, kept
\* uninterpreted; labelRaises says whether it raises on this call.
derive_kb_node_label(db_id, labelRaises) ==
  IF labelRaises
  THEN Raise(Error("LabelError", db_id))
  ELSE Return(<<"kb_label_of", db_id>>)

\* Calling an adapter class: an opaque instance that remembers its class and
\* the keyword arguments it was built with, or an error of the constructor.
Construct(adapter_class, kwargs, ctorRaises) ==
  IF ctorRaises
  THEN Raise(Error("AdapterError", adapter_class))
  ELSE Return(Instance(adapter_class, kwargs))

\* dict.get(key): the value, or None for a missing key.
DictGet(d, key) == IF key \in DOMAIN d THEN d[key] ELSE None

\* os.environ.get, had the variable never been looked up.
EnvironGet_defaultOnly(env, name, default) == default

\* os.environ.get(name, default)
EnvironGet(env, name, default) == IF name \in DOMAIN env THEN env[name] ELSE default

\* What a call did besides returning: the create_adapter calls it made, the
\* constructors it invoked, the environment variables and labels it asked for.
NoTrace == [createCalls |-> <<>>, ctorCalls |-> <<>>, envReads |-> <<>>, labelCalls |-> <<>>]

Result(outcome, trace) == [outcome |-> outcome, trace |-> trace]

(***************************************************************************)
(* The methods of GraphAdapterFactory.                                     *)
(***************************************************************************)

InitialRegistry ==
  [t \in {"upload", "lightrag"} |->
     IF t = "upload" THEN "UploadGraphAdapter" ELSE "LightRAGGraphAdapter"]

\* register, had it treated "no class" as a request to drop the entry.
register_dropping(reg, graph_type, adapter_class) ==
  [t \in (DOMAIN reg \cup {graph_type}) \ (IF adapter_class = None THEN {graph_type} ELSE {}) |->
     IF t = graph_type THEN adapter_class ELSE reg[t]]

register(reg, graph_type, adapter_class) ==
  [t \in DOMAIN reg \cup {graph_type} |->
     IF t = graph_type THEN adapter_class ELSE reg[t]]

create_adapter(reg, graph_type, kwargs, ctorRaises) ==
  LET adapter_class == DictGet(reg, graph_type) IN
  IF ~Truthy(adapter_class)
  THEN Result(Raise(UnknownType(graph_type)), NoTrace)
  ELSE Result(Construct(adapter_class, kwargs, ctorRaises),
              [NoTrace EXCEPT !.ctorCalls = <<[cls |-> adapter_class, kwargs |-> kwargs]>>])

\* get_supported_types, had it described whatever is registered.
get_supported_types_registered ==
  [t \in DOMAIN registry |->
     IF t = "upload" THEN "upload file graph - embedding and threshold queries"
                     ELSE "LightRAG knowledge graph - graph labelled by kb_id"]

\* The two descriptions are the source's string literals, given in English.
get_supported_types ==
  [t \in {"upload", "lightrag"} |->
     IF t = "upload" THEN "upload file graph - embedding and threshold queries"
                     ELSE "LightRAG knowledge graph - graph labelled by kb_id"]

\* detect_graph_type, had it tested the manager against None only.
detect_graph_type_notNone(db_id, knowledge_base_manager) ==
  IF knowledge_base_manager.supplied /\ hasattr(knowledge_base_manager, "is_lightrag_database")
  THEN LET r == is_lightrag_database(knowledge_base_manager, db_id) IN
       IF IsRaise(r) THEN r
       ELSE IF r.value THEN Return(Str("lightrag")) ELSE Return(Str("upload"))
  ELSE Return(Str("upload"))

\* detect_graph_type, had it fallen back to "upload" when the manager raises.
detect_graph_type_fallback(db_id, knowledge_base_manager) ==
  IF bool(knowledge_base_manager) /\ hasattr(knowledge_base_manager, "is_lightrag_database")
  THEN LET r == is_lightrag_database(knowledge_base_manager, db_id) IN
       IF IsRaise(r) THEN Return(Str("upload"))
       ELSE IF r.value THEN Return(Str("lightrag")) ELSE Return(Str("upload"))
  ELSE Return(Str("upload"))

detect_graph_type(db_id, knowledge_base_manager) ==
  IF bool(knowledge_base_manager) /\ hasattr(knowledge_base_manager, "is_lightrag_database")
  THEN LET r == is_lightrag_database(knowledge_base_manager, db_id) IN
       IF IsRaise(r) THEN r
       ELSE IF r.value THEN Return(Str("lightrag")) ELSE Return(Str("upload"))
  ELSE Return(Str("upload"))

\* create_adapter as called from create_adapter_by_db_id: the call is added
\* in front of whatever create_adapter itself did.
CallCreate(reg, graph_type, kwargs, ctorRaises, trace) ==
  LET r == create_adapter(reg, graph_type, kwargs, ctorRaises) IN
  Result(r.outcome,
         [trace EXCEPT !.createCalls = <<[graph_type |-> graph_type, kwargs |-> kwargs]>>,
                       !.ctorCalls = r.trace.ctorCalls])

\* create_adapter_by_db_id, had it passed graph_db_instance on both paths.
create_adapter_by_db_id_forwarding(reg, env, db_id, knowledge_base_manager, graph_db_instance, labelRaises, ctorRaises) ==
  LET graph_type == detect_graph_type(db_id, knowledge_base_manager) IN
  IF IsRaise(graph_type) THEN Result(graph_type, NoTrace)
  ELSE IF graph_type.value = Str("lightrag")
  THEN CallCreate(reg, "lightrag",
                  [graph_db_instance |-> graph_db_instance, config |-> [kb_id |-> db_id]],
                  ctorRaises, NoTrace)
  ELSE LET kgdb_name == EnvironGet(env, "NEO4J_DATABASE", "neo4j")
           kb_label == derive_kb_node_label(db_id, labelRaises)
           trace == [NoTrace EXCEPT !.envReads = <<"NEO4J_DATABASE">>,
                                    !.labelCalls = <<db_id>>]
       IN IF IsRaise(kb_label) THEN Result(kb_label, trace)
          ELSE CallCreate(reg, "upload",
                          [graph_db_instance |-> graph_db_instance,
                           config |-> [kgdb_name |-> kgdb_name,
                                       kb_label |-> kb_label.value,
                                       kb_id |-> db_id]],
                          ctorRaises, trace)

create_adapter_by_db_id(reg, env, db_id, knowledge_base_manager, graph_db_instance, labelRaises, ctorRaises) ==
  LET graph_type == detect_graph_type(db_id, knowledge_base_manager) IN
  IF IsRaise(graph_type) THEN Result(graph_type, NoTrace)
  ELSE IF graph_type.value = Str("lightrag")
  THEN CallCreate(reg, "lightrag", [config |-> [kb_id |-> db_id]], ctorRaises, NoTrace)
  ELSE LET kgdb_name == EnvironGet(env, "NEO4J_DATABASE", "neo4j")
           kb_label == derive_kb_node_label(db_id, labelRaises)
           trace == [NoTrace EXCEPT !.envReads = <<"NEO4J_DATABASE">>,
                                    !.labelCalls = <<db_id>>]
       IN IF IsRaise(kb_label) THEN Result(kb_label, trace)
          ELSE CallCreate(reg, "upload",
                          [graph_db_instance |-> graph_db_instance,
                           config |-> [kgdb_name |-> kgdb_name,
                                       kb_label |-> kb_label.value,
                                       kb_id |-> db_id]],
                          ctorRaises, trace)

\* create_adapter_for_db_id, had it left graph_db_instance behind.
create_adapter_for_db_id_noInstance(reg, env, db_id, knowledge_base_manager, graph_db_instance, labelRaises, ctorRaises) ==
  create_adapter_by_db_id(reg, env, db_id, knowledge_base_manager, None,
                          labelRaises, ctorRaises)

create_adapter_for_db_id(reg, env, db_id, knowledge_base_manager, graph_db_instance, labelRaises, ctorRaises) ==
  create_adapter_by_db_id(reg, env, db_id, knowledge_base_manager, graph_db_instance,
                          labelRaises, ctorRaises)

(***************************************************************************)
(* The state machine: one action per call.                                 *)
(***************************************************************************)

\* Which collaborator fails during a call, as <<labelRaises, ctorRaises>>.  A
\* failing label derivation ends the call before any constructor is reached,
\* so both failing at once is the same call as the label failing alone.
Faults == {<<FALSE, FALSE>>, <<TRUE, FALSE>>, <<FALSE, TRUE>>}

\* Keyword arguments a caller of create_adapter passes.
Options ==
  {[config |-> [kb_id |-> id]] : id \in Identifiers}
  \cup {[graph_db_instance |-> "graph_db", config |-> [kb_id |-> IdPool[1]]]}

Call(op, args, result) ==
  [op |-> op, args |-> args, outcome |-> result.outcome, trace |-> result.trace,
   regBefore |-> registry, envBefore |-> environ]

Init ==
  /\ registry = InitialRegistry
  /\ environ = [n \in {} |-> ""]
  /\ last = Call("init", [none |-> None], Result(Return(NoneValue), NoTrace))

Register ==
  \E graph_type \in GraphTypes, adapter_class \in RegisterValues :
    /\ registry' = register(registry, graph_type, adapter_class)
    /\ last' = Call("register", [graph_type |-> graph_type, adapter_class |-> adapter_class],
                    Result(Return(NoneValue), NoTrace))
    /\ UNCHANGED environ

CreateAdapter ==
  \E graph_type \in GraphTypes, kwargs \in Options, ctorRaises \in BOOLEAN :
    /\ last' = Call("create_adapter",
                    [graph_type |-> graph_type, kwargs |-> kwargs, ctorRaises |-> ctorRaises],
                    create_adapter(registry, graph_type, kwargs, ctorRaises))
    /\ UNCHANGED <<registry, environ>>

GetSupportedTypes ==
  /\ last' = Call("get_supported_types", [none |-> None],
                  Result(Return(Dict(get_supported_types)), NoTrace))
  /\ UNCHANGED <<registry, environ>>

DetectGraphType ==
  \E db_id \in Identifiers, knowledge_base_manager \in Managers :
    /\ last' = Call("detect_graph_type",
                    [db_id |-> db_id, knowledge_base_manager |-> knowledge_base_manager],
                    Result(detect_graph_type(db_id, knowledge_base_manager), NoTrace))
    /\ UNCHANGED <<registry, environ>>

ByDbIdArgs(db_id, knowledge_base_manager, graph_db_instance, labelRaises, ctorRaises) ==
  [db_id |-> db_id, knowledge_base_manager |-> knowledge_base_manager,
   graph_db_instance |-> graph_db_instance,
   labelRaises |-> labelRaises, ctorRaises |-> ctorRaises]

CreateAdapterByDbId ==
  \E db_id \in Identifiers, knowledge_base_manager \in Managers,
     graph_db_instance \in GraphDbInstances, fault \in Faults :
    LET labelRaises == fault[1]
        ctorRaises == fault[2] IN
    /\ last' = Call("create_adapter_by_db_id",
                    ByDbIdArgs(db_id, knowledge_base_manager, graph_db_instance,
                               labelRaises, ctorRaises),
                    create_adapter_by_db_id(registry, environ, db_id, knowledge_base_manager,
                                            graph_db_instance, labelRaises, ctorRaises))
    /\ UNCHANGED <<registry, environ>>

CreateAdapterForDbId ==
  \E db_id \in Identifiers, knowledge_base_manager \in Managers,
     graph_db_instance \in GraphDbInstances, fault \in Faults :
    LET labelRaises == fault[1]
        ctorRaises == fault[2] IN
    /\ last' = Call("create_adapter_for_db_id",
                    ByDbIdArgs(db_id, knowledge_base_manager, graph_db_instance,
                               labelRaises, ctorRaises),
                    create_adapter_for_db_id(registry, environ, db_id, knowledge_base_manager,
                                             graph_db_instance, labelRaises, ctorRaises))
    /\ UNCHANGED <<registry, environ>>

\* The process environment changes between calls: NEO4J_DATABASE is set ...
SetEnv ==
  \E v \in EnvValues :
    /\ environ' = [n \in {"NEO4J_DATABASE"} |-> v]
    /\ last' = Call("setenv", [value |-> v], Result(Return(NoneValue), NoTrace))
    /\ UNCHANGED registry

\* ... or removed.
UnsetEnv ==
  /\ "NEO4J_DATABASE" \in DOMAIN environ
  /\ environ' = [n \in {} |-> ""]
  /\ last' = Call("unsetenv", [none |-> None], Result(Return(NoneValue), NoTrace))
  /\ UNCHANGED registry

Next ==
  \/ Register
  \/ CreateAdapter
  \/ GetSupportedTypes
  \/ DetectGraphType
  \/ CreateAdapterByDbId
  \/ CreateAdapterForDbId
  \/ SetEnv
  \/ UnsetEnv

Spec == Init /\ [][Next]_vars

(***************************************************************************)
(* Properties.                                                             *)
(***************************************************************************)

BuiltinTags == {"upload", "lightrag"}

\* The manager of the last call was asked to classify the identifier.
Asked(m) == bool(m) /\ hasattr(m, "is_lightrag_database")

RaisedUnknownType(o) == IsRaise(o) /\ o.error.type = "ValueError"

\* C1, as stated: detect_type never fails, returns "upload" or "lightrag",
\* and returns "lightrag" exactly when a manager is supplied, has the
\* is_lightrag_database capability and classifies the identifier as true.
C1_DetectTotal ==
  last.op = "detect_graph_type" =>
    LET m == last.args.knowledge_base_manager
        answer == is_lightrag_database(m, last.args.db_id)
        classified == /\ m.supplied
                      /\ hasattr(m, "is_lightrag_database")
                      /\ IsReturn(answer)
                      /\ answer.value
    IN /\ IsReturn(last.outcome)
       /\ last.outcome.value \in {Str("upload"), Str("lightrag")}
       /\ (last.outcome.value = Str("lightrag") <=> classified)

\* C1, amended: when the classification call raises, detect_type raises that
\* error; otherwise it returns "upload" or "lightrag", and "lightrag" exactly
\* when the manager is supplied and truthy, has the capability and
\* classifies the identifier as true.
C1_DetectType ==
  last.op = "detect_graph_type" =>
    LET m == last.args.knowledge_base_manager
        answer == is_lightrag_database(m, last.args.db_id)
    IN IF Asked(m) /\ IsRaise(answer)
       THEN last.outcome = answer
       ELSE /\ IsReturn(last.outcome)
            /\ last.outcome.value \in {Str("upload"), Str("lightrag")}
            /\ (last.outcome.value = Str("lightrag") <=> (Asked(m) /\ answer.value))

C1_Witness ==
  /\ last.op = "detect_graph_type"
  /\ IsReturn(last.outcome)
  /\ last.outcome.value = Str("lightrag")

\* C2: create(t, options) fails with the Unknown-Type error exactly when t is
\* not a key of the registry; the error carries t, no constructor is invoked
\* and the registry is unchanged.
C2_UnknownTypeIffAbsent ==
  last.op = "create_adapter" =>
    LET t == last.args.graph_type IN
    /\ RaisedUnknownType(last.outcome) <=> t \notin DOMAIN last.regBefore
    /\ RaisedUnknownType(last.outcome) =>
         /\ last.outcome.error = UnknownType(t)
         /\ last.trace.ctorCalls = <<>>
         /\ registry = last.regBefore

\* C3: create(t, o) for a tag t of the registry invokes the constructor
\* registered for t with exactly o and returns its result; register(t, C)
\* maps t to C and leaves every other tag's mapping alone.
C3_CreateUsesRegistered ==
  /\ last.op = "create_adapter" /\ last.args.graph_type \in DOMAIN last.regBefore =>
       LET C == last.regBefore[last.args.graph_type] IN
       /\ last.trace.ctorCalls = <<[cls |-> C, kwargs |-> last.args.kwargs]>>
       /\ last.outcome = Construct(C, last.args.kwargs, last.args.ctorRaises)
  /\ last.op = "register" =>
       /\ DOMAIN registry = DOMAIN last.regBefore \cup {last.args.graph_type}
       /\ registry[last.args.graph_type] = last.args.adapter_class
       /\ \A u \in DOMAIN last.regBefore \ {last.args.graph_type} :
            registry[u] = last.regBefore[u]

\* C4: the registry always has the keys "upload" and "lightrag", and no step
\* removes a key.
C4_RegistryKeys ==
  /\ [](BuiltinTags \subseteq DOMAIN registry)
  /\ [][DOMAIN registry \subseteq DOMAIN registry']_vars

C4_Witness ==
  /\ last.op = "register"
  /\ last.args.adapter_class = None
  /\ last.args.graph_type = "upload"
  /\ "custom" \in DOMAIN registry

\* C5: when detect_type yields "lightrag", create_for_identifier calls
\* create("lightrag", config = {kb_id: identifier}) with no other option;
\* graph_db_instance reaches no constructor, and neither NEO4J_DATABASE nor
\* the label derivation is consulted.
C5_LightragPath ==
  last.op = "create_adapter_by_db_id"
  /\ detect_graph_type(last.args.db_id, last.args.knowledge_base_manager) = Return(Str("lightrag")) =>
    LET kwargs == [config |-> [kb_id |-> last.args.db_id]] IN
    /\ last.trace.createCalls = <<[graph_type |-> "lightrag", kwargs |-> kwargs]>>
    /\ \A i \in DOMAIN last.trace.ctorCalls : last.trace.ctorCalls[i].kwargs = kwargs
    /\ last.trace.envReads = <<>>
    /\ last.trace.labelCalls = <<>>

C5_Witness ==
  /\ last.op = "create_adapter_by_db_id"
  /\ last.args.graph_db_instance = "graph_db"
  /\ last.trace.createCalls # <<>>
  /\ last.trace.createCalls[1].graph_type = "lightrag"
  /\ last.trace.ctorCalls # <<>>
  /\ IsReturn(last.outcome)

\* C6: when detect_type yields "upload" (and the label derivation returns a
\* label), create_for_identifier calls create("upload") with the caller's
\* graph_db_instance and config = {kgdb_name, kb_label, kb_id}: kgdb_name is
\* NEO4J_DATABASE as it is at the call ("neo4j" when unset), kb_label the
\* derived label, kb_id the identifier.
C6_UploadPath ==
  last.op = "create_adapter_by_db_id"
  /\ detect_graph_type(last.args.db_id, last.args.knowledge_base_manager) = Return(Str("upload"))
  /\ ~last.args.labelRaises =>
    last.trace.createCalls =
      <<[graph_type |-> "upload",
         kwargs |-> [graph_db_instance |-> last.args.graph_db_instance,
                     config |-> [kgdb_name |-> IF "NEO4J_DATABASE" \in DOMAIN last.envBefore
                                               THEN last.envBefore["NEO4J_DATABASE"]
                                               ELSE "neo4j",
                                 kb_label |-> derive_kb_node_label(last.args.db_id, FALSE).value,
                                 kb_id |-> last.args.db_id]]]>>

C6_Witness ==
  /\ last.op = "create_adapter_by_db_id"
  /\ last.trace.createCalls # <<>>
  /\ last.trace.createCalls[1].graph_type = "upload"
  /\ last.trace.createCalls[1].kwargs.config.kgdb_name = "mydb"
  /\ last.trace.createCalls[1].kwargs.graph_db_instance = "graph_db"
  /\ IsReturn(last.outcome)

\* C7: list_supported returns one fixed mapping whose keys are exactly
\* "upload" and "lightrag", each with a non-empty description, whatever has
\* been registered; the registry is not changed by it.
C7_SupportedTypesStatic ==
  last.op = "get_supported_types" =>
    /\ IsReturn(last.outcome)
    /\ DOMAIN last.outcome.value.items = BuiltinTags
    /\ \A t \in BuiltinTags : last.outcome.value.items[t] # ""
    /\ last.outcome.value.items["upload"] = "upload file graph - embedding and threshold queries"
    /\ last.outcome.value.items["lightrag"] = "LightRAG knowledge graph - graph labelled by kb_id"
    /\ registry = last.regBefore

C7_Witness ==
  /\ last.op = "get_supported_types"
  /\ "custom" \in DOMAIN registry
  /\ registry["lightrag"] # "LightRAGGraphAdapter"

\* C8: create_adapter_for_db_id does what create_adapter_by_db_id does on the
\* same registry, environment and arguments: same create call, same
\* constructor call, same result or error, registry unchanged.
C8_CompatEntryPoint ==
  last.op = "create_adapter_for_db_id" =>
    LET r == create_adapter_by_db_id(last.regBefore, last.envBefore, last.args.db_id,
                                     last.args.knowledge_base_manager,
                                     last.args.graph_db_instance,
                                     last.args.labelRaises, last.args.ctorRaises)
    IN /\ last.outcome = r.outcome
       /\ last.trace = r.trace
       /\ registry = last.regBefore

C8_Witness ==
  /\ last.op = "create_adapter_for_db_id"
  /\ last.args.graph_db_instance = "graph_db"
  /\ last.trace.ctorCalls # <<>>
  /\ last.trace.createCalls[1].graph_type = "upload"
  /\ IsReturn(last.outcome)

\* C9: an error of the manager's classification, of the label derivation or
\* of an adapter constructor comes out of detect_type / create /
\* create_for_identifier as it was raised; when the classification raises,
\* create_for_identifier calls no create and no constructor and leaves the
\* registry alone.
C9_ErrorsPropagate ==
  LET managerError ==
        is_lightrag_database(last.args.knowledge_base_manager, last.args.db_id)
      managerRaised ==
        Asked(last.args.knowledge_base_manager) /\ IsRaise(managerError)
  IN
  /\ last.op = "detect_graph_type" /\ managerRaised => last.outcome = managerError
  /\ last.op = "create_adapter" /\ last.trace.ctorCalls # <<>> /\ last.args.ctorRaises =>
       last.outcome = Raise(Error("AdapterError", last.trace.ctorCalls[1].cls))
  /\ last.op = "create_adapter_by_db_id" =>
       /\ managerRaised =>
            /\ last.outcome = managerError
            /\ last.trace.createCalls = <<>>
            /\ last.trace.ctorCalls = <<>>
            /\ registry = last.regBefore
       /\ last.trace.labelCalls # <<>> /\ last.args.labelRaises =>
            /\ last.outcome = Raise(Error("LabelError", last.args.db_id))
            /\ last.trace.ctorCalls = <<>>
       /\ last.trace.ctorCalls # <<>> /\ last.args.ctorRaises =>
            last.outcome = Raise(Error("AdapterError", last.trace.ctorCalls[1].cls))

C9_Witness ==
  /\ last.op = "create_adapter_by_db_id"
  /\ Asked(last.args.knowledge_base_manager)
  /\ IsRaise(is_lightrag_database(last.args.knowledge_base_manager, last.args.db_id))
  /\ IsRaise(last.outcome)
  /\ last.outcome.error.type = "ManagerError"

\* C10: whatever has been registered, create_for_identifier never fails with
\* the Unknown-Type error: it dispatches on "upload" or "lightrag", and
\* create finds the tag and invokes the constructor registered for it.
C10_NeverUnknownType ==
  last.op = "create_adapter_by_db_id" =>
    /\ ~RaisedUnknownType(last.outcome)
    /\ \A i \in DOMAIN last.trace.createCalls :
         /\ last.trace.createCalls[i].graph_type \in BuiltinTags
         /\ last.trace.ctorCalls =
              <<[cls |-> last.regBefore[last.trace.createCalls[i].graph_type],
                 kwargs |-> last.trace.createCalls[i].kwargs]>>

====
